---- MODULE Spec2Model ----
(***************************************************************************)
(* Model of gammapy/stats/variability.py: compute_fvar, compute_fpp and    *)
(* compute_chisq over numpy arrays.                                        *)
(*                                                                         *)
(* Numbers.  A float is modelled by its exact real value, or NaN, or an    *)
(* infinity; rounding and signed zeros are not modelled.  A finite value   *)
(* is a record [k |-> "fin", n, d, r]: r = 1 is the rational n/d, r = 2 is *)
(* sign(n) * sqrt(|n|/d), which is what np.sqrt of a rational gives.  The  *)
(* functions only add and subtract rationals (squares, sums, counts), so   *)
(* Add is defined on r = 1 alone and TLC stops if it ever meets a root.    *)
(*                                                                         *)
(* Arrays.  An ndarray is [ok, shape, data]: shape a sequence of lengths,  *)
(* data a function from index tuples (1-based) to numbers.  ok = FALSE is  *)
(* an array expression that raised (numpy's broadcasting ValueError); it   *)
(* propagates through every later operation, as the exception does.        *)
(***************************************************************************)
EXTENDS Integers, Sequences, FiniteSets, TLC

\* ------------------------------------------------------------- numbers

AbsI(a) == IF a < 0 THEN -a ELSE a

SgnI(a) == IF a < 0 THEN -1 ELSE IF a = 0 THEN 0 ELSE 1

RECURSIVE Gcd(_, _)
Gcd(a, b) == IF b = 0 THEN a ELSE Gcd(b, a % b)

NaN == [k |-> "nan", n |-> 0, d |-> 1, r |-> 1]

Inf(s) == [k |-> "inf", n |-> s, d |-> 1, r |-> 1]

\* The canonical finite value of root degree r with signed radicand n/d (d # 0).
Fin(n, d, r) ==
    LET g == Gcd(AbsI(n), AbsI(d))
        s == SgnI(d)
    IN  IF n = 0 THEN [k |-> "fin", n |-> 0, d |-> 1, r |-> 1]
        ELSE [k |-> "fin", n |-> (s * n) \div g, d |-> (s * d) \div g, r |-> r]

Rat(n, d) == Fin(n, d, 1)

Num(n) == Fin(n, 1, 1)

IsNaN(x) == x.k = "nan"

IsInf(x) == x.k = "inf"

IsFin(x) == x.k = "fin"

IsZero(x) == x.k = "fin" /\ x.n = 0

\* The sign of a non-NaN value.
Sign(x) == SgnI(x.n)

\* The signed square of a finite value, as a numerator and a denominator.
SqN(x) == IF x.r = 1 THEN SgnI(x.n) * x.n * x.n ELSE x.n

SqD(x) == IF x.r = 1 THEN x.d * x.d ELSE x.d

Neg(x) == IF IsNaN(x) THEN NaN ELSE [x EXCEPT !.n = -x.n]

\* np.abs
Abs(x) == IF IsNaN(x) THEN NaN ELSE [x EXCEPT !.n = AbsI(x.n)]

\* x + y in IEEE arithmetic: inf + -inf is NaN.
Add(x, y) ==
    CASE IsNaN(x) \/ IsNaN(y) -> NaN
      [] IsInf(x) /\ IsInf(y) -> IF x.n = y.n THEN x ELSE NaN
      [] IsInf(x) -> x
      [] IsInf(y) -> y
      [] x.r = 1 /\ y.r = 1 -> Rat(x.n * y.d + y.n * x.d, x.d * y.d)

Sub(x, y) == Add(x, Neg(y))

\* x * y in IEEE arithmetic: inf * 0 is NaN.
Mul(x, y) ==
    CASE IsNaN(x) \/ IsNaN(y) -> NaN
      [] IsInf(x) \/ IsInf(y) ->
            IF IsZero(x) \/ IsZero(y) THEN NaN ELSE Inf(Sign(x) * Sign(y))
      [] x.r = 1 /\ y.r = 1 -> Rat(x.n * y.n, x.d * y.d)
      [] OTHER -> Fin(SqN(x) * SqN(y), SqD(x) * SqD(y), 2)

\* x / y in IEEE arithmetic: 0/0 and inf/inf are NaN, x/0 is an infinity
\* (a RuntimeWarning in numpy, never an exception).
Div(x, y) ==
    CASE IsNaN(x) \/ IsNaN(y) -> NaN
      [] IsInf(x) /\ IsInf(y) -> NaN
      [] IsInf(x) -> Inf(x.n * (IF Sign(y) < 0 THEN -1 ELSE 1))
      [] IsInf(y) -> Num(0)
      [] IsZero(y) -> IF IsZero(x) THEN NaN ELSE Inf(Sign(x))
      [] x.r = 1 /\ y.r = 1 -> Rat(x.n * y.d, x.d * y.n)
      [] OTHER -> Fin(SqN(x) * SqD(y) * SgnI(SqN(y)), SqD(x) * AbsI(SqN(y)), 2)

\* x ** 2
Pow2(x) ==
    CASE IsNaN(x) -> NaN
      [] IsInf(x) -> Inf(1)
      [] x.r = 1 -> Rat(x.n * x.n, x.d * x.d)
      [] x.r = 2 -> Rat(AbsI(x.n), x.d)

\* np.sqrt: NaN (a RuntimeWarning) below zero.
Sqrt(x) ==
    CASE IsNaN(x) -> NaN
      [] IsInf(x) -> IF x.n > 0 THEN x ELSE NaN
      [] x.r = 1 -> IF x.n < 0 THEN NaN ELSE Fin(x.n, x.d, 2)

\* -------------------------------------------------------------- arrays

MaxI(a, b) == IF a < b THEN b ELSE a

Arr(shape, data) == [ok |-> TRUE, shape |-> shape, data |-> data]

\* An array expression whose evaluation raised.
Raised == [ok |-> FALSE, shape |-> <<>>, data |-> <<>>]

RECURSIVE SeqMax(_)
SeqMax(s) == IF Len(s) = 0 THEN 0 ELSE MaxI(s[Len(s)], SeqMax(SubSeq(s, 1, Len(s) - 1)))

\* The index tuples of an array of the given shape.
Indices(shape) ==
    {t \in [1..Len(shape) -> 1..SeqMax(shape)] : \A i \in 1..Len(shape) : t[i] <= shape[i]}

\* A Python number or numpy scalar used in array arithmetic: a 0-d array.
Scalar(v) == Arr(<<>>, [idx \in Indices(<<>>) |-> v])

\* numpy broadcasting: shapes are aligned at their trailing dimensions and
\* padded with 1 in front; a pair of lengths is compatible when they are equal
\* or one of them is 1.
PadShape(s, nd) == [i \in 1..nd |-> IF i <= nd - Len(s) THEN 1 ELSE s[i - (nd - Len(s))]]

BroadcastOK(sa, sb) ==
    LET nd == MaxI(Len(sa), Len(sb))
    IN  \A i \in 1..nd :
            \/ PadShape(sa, nd)[i] = PadShape(sb, nd)[i]
            \/ PadShape(sa, nd)[i] = 1
            \/ PadShape(sb, nd)[i] = 1

BroadcastShape(sa, sb) ==
    LET nd == MaxI(Len(sa), Len(sb))
    IN  [i \in 1..nd |-> IF PadShape(sa, nd)[i] = 1 THEN PadShape(sb, nd)[i]
                         ELSE PadShape(sa, nd)[i]]

\* The index into an operand of shape s that the result's index idx reads.
Project(idx, s) ==
    [j \in 1..Len(s) |-> IF s[j] = 1 THEN 1 ELSE idx[j + Len(idx) - Len(s)]]

Apply(op, x, y) ==
    CASE op = "add" -> Add(x, y)
      [] op = "sub" -> Sub(x, y)
      [] op = "mul" -> Mul(x, y)
      [] op = "div" -> Div(x, y)

\* An elementwise binary operation; operands that do not broadcast raise
\* ValueError.
BinOp(op, A, B) ==
    IF ~A.ok \/ ~B.ok THEN Raised
    ELSE IF ~BroadcastOK(A.shape, B.shape) THEN Raised
    ELSE LET sh == BroadcastShape(A.shape, B.shape)
         IN  Arr(sh, [idx \in Indices(sh) |->
                        Apply(op, A.data[Project(idx, A.shape)],
                                  B.data[Project(idx, B.shape)])])

Apply1(op, x) ==
    CASE op = "pow2" -> Pow2(x)
      [] op = "sqrt" -> Sqrt(x)
      [] op = "abs" -> Abs(x)

\* An elementwise unary operation (x ** 2, np.sqrt, np.abs).
UnOp(op, A) ==
    IF ~A.ok THEN Raised
    ELSE Arr(A.shape, [idx \in Indices(A.shape) |-> Apply1(op, A.data[idx])])

RemoveAt(s, p) == [i \in 1..(Len(s) - 1) |-> IF i < p THEN s[i] ELSE s[i + 1]]

InsertAt(idx, p, t) ==
    [i \in 1..(Len(idx) + 1) |-> IF i < p THEN idx[i] ELSE IF i = p THEN t ELSE idx[i - 1]]

\* The 1-D series of A along axis (0-based, as in the source) at position idx
\* of the other dimensions.
Along(A, axis, idx) ==
    [t \in 1..A.shape[axis + 1] |-> A.data[InsertAt(idx, axis + 1, t)]]

RECURSIVE SumSeq(_)
SumSeq(s) ==
    IF Len(s) = 0 THEN Num(0)
    ELSE Add(SumSeq(SubSeq(s, 1, Len(s) - 1)), s[Len(s)])

NanToZero(s) == [i \in 1..Len(s) |-> IF IsNaN(s[i]) THEN Num(0) ELSE s[i]]

CountValid(s) == Cardinality({i \in 1..Len(s) : ~IsNaN(s[i])})

\* A reduction of A along axis: the result has the axis removed.
Reduce(f, A, axis) ==
    IF ~A.ok THEN Raised
    ELSE LET sh == RemoveAt(A.shape, axis + 1)
         IN  Arr(sh, [idx \in Indices(sh) |->
                LET s == Along(A, axis, idx)
                IN  CASE f = "nansum" -> SumSeq(NanToZero(s))
                      [] f = "sum" -> SumSeq(s)
                      [] f = "nanmean" -> Div(SumSeq(NanToZero(s)), Num(CountValid(s)))
                      [] f = "count" -> Num(CountValid(s))
                      [] f = "len" -> Num(Len(s))])

\* np.nanmean(a, axis=axis): NaN entries are left out; an all-NaN slice gives
\* NaN (0/0, a RuntimeWarning).
nanmean(A, axis) == Reduce("nanmean", A, axis)

\* np.nansum(a, axis=axis): NaN entries count as zero.
nansum(A, axis) == Reduce("nansum", A, axis)

\* np.count_nonzero(~np.isnan(a), axis=axis)
count_notnan(A, axis) == Reduce("count", A, axis)

SwapIdx(s, p, q) ==
    [i \in 1..Len(s) |-> IF i = p THEN s[q] ELSE IF i = q THEN s[p] ELSE s[i]]

\* a.swapaxes(a1, a2), axes 0-based
swapaxes(A, a1, a2) ==
    IF ~A.ok THEN Raised
    ELSE LET sh == SwapIdx(A.shape, a1 + 1, a2 + 1)
         IN  Arr(sh, [idx \in Indices(sh) |-> A.data[SwapIdx(idx, a1 + 1, a2 + 1)]])

Rev(s) == [i \in 1..Len(s) |-> s[Len(s) + 1 - i]]

\* a.T: the axes reversed
T(A) ==
    IF ~A.ok THEN Raised
    ELSE Arr(Rev(A.shape), [idx \in Indices(Rev(A.shape)) |-> A.data[Rev(idx)]])

\* The shape of a[..., 1:] and of a[..., :-1].
SliceShape(s) == [i \in 1..Len(s) |-> IF i = Len(s) THEN MaxI(s[i] - 1, 0) ELSE s[i]]

\* a[..., 1:]
DropFirst(A) ==
    IF ~A.ok THEN Raised
    ELSE Arr(SliceShape(A.shape),
             [idx \in Indices(SliceShape(A.shape)) |->
                A.data[[idx EXCEPT ![Len(idx)] = @ + 1]]])

\* a[..., :-1]
DropLast(A) ==
    IF ~A.ok THEN Raised
    ELSE Arr(SliceShape(A.shape),
             [idx \in Indices(SliceShape(A.shape)) |-> A.data[idx]])

\* The array of a 1-D series.
Arr1(s) == Arr(<<Len(s)>>, [idx \in Indices(<<Len(s)>>) |-> s[idx[1]]])

\* ------------------------------------------------------- compute_fvar

\* flux_mean = np.nanmean(flux, axis=axis)
fvar_flux_mean(flux, axis) == nanmean(flux, axis)

\* n_points = np.count_nonzero(~np.isnan(flux), axis=axis)
fvar_n_points(flux, axis) == count_notnan(flux, axis)

\* s_square = np.nansum((flux - flux_mean) ** 2, axis=axis) / (n_points - 1)
fvar_s_square(flux, flux_mean, n_points, axis) ==
    BinOp("div",
          nansum(UnOp("pow2", BinOp("sub", flux, flux_mean)), axis),
          BinOp("sub", n_points, Scalar(Num(1))))

\* fvar_sig_square with np.sum in place of np.nansum.
fvar_sig_square_plain_sum(flux_err, n_points, axis) ==
    BinOp("div", Reduce("sum", UnOp("pow2", flux_err), axis), n_points)

\* sig_square = np.nansum(flux_err**2, axis=axis) / n_points
fvar_sig_square(flux_err, n_points, axis) ==
    BinOp("div", nansum(UnOp("pow2", flux_err), axis), n_points)

\* fvar = np.sqrt(np.abs(s_square - sig_square)) / flux_mean
fvar(s_square, sig_square, flux_mean) ==
    BinOp("div", UnOp("sqrt", UnOp("abs", BinOp("sub", s_square, sig_square))), flux_mean)

\* sigxserr_a = np.sqrt(2 / n_points) * sig_square / flux_mean**2
fvar_sigxserr_a(sig_square, n_points, flux_mean) ==
    BinOp("div",
          BinOp("mul", UnOp("sqrt", BinOp("div", Scalar(Num(2)), n_points)), sig_square),
          UnOp("pow2", flux_mean))

\* sigxserr_b = np.sqrt(sig_square / n_points) * (2 * fvar / flux_mean)
fvar_sigxserr_b(fv, sig_square, n_points, flux_mean) ==
    BinOp("mul",
          UnOp("sqrt", BinOp("div", sig_square, n_points)),
          BinOp("div", BinOp("mul", Scalar(Num(2)), fv), flux_mean))

\* sigxserr = np.sqrt(sigxserr_a**2 + sigxserr_b**2)
\* fvar_err = sigxserr / (2 * fvar)
fvar_err(fv, sigxserr_a, sigxserr_b) ==
    BinOp("div",
          UnOp("sqrt", BinOp("add", UnOp("pow2", sigxserr_a), UnOp("pow2", sigxserr_b))),
          BinOp("mul", Scalar(Num(2)), fv))

\* The call: the returned pair (val, err) and the locals at the return;
\* raised when an array expression raised on the way.
compute_fvar(flux0, flux_err0, axis0) ==
    LET flux_mean == fvar_flux_mean(flux0, axis0)
        n_points == fvar_n_points(flux0, axis0)
        s_square == fvar_s_square(flux0, flux_mean, n_points, axis0)
        sig_square == fvar_sig_square(flux_err0, n_points, axis0)
        fv == fvar(s_square, sig_square, flux_mean)
        sigxserr_a == fvar_sigxserr_a(sig_square, n_points, flux_mean)
        sigxserr_b == fvar_sigxserr_b(fv, sig_square, n_points, flux_mean)
        fv_err == fvar_err(fv, sigxserr_a, sigxserr_b)
    IN  [raised |-> ~fv_err.ok, val |-> fv, err |-> fv_err,
         flux_mean |-> flux_mean, n_points |-> n_points,
         s_square |-> s_square, sig_square |-> sig_square]

\* -------------------------------------------------------- compute_fpp

\* flux_mean = np.nanmean(flux, axis=axis)
fpp_flux_mean(flux, axis) == nanmean(flux, axis)

\* n_points = np.count_nonzero(~np.isnan(flux), axis=axis)
fpp_n_points(flux, axis) == count_notnan(flux, axis)

\* flux = flux.swapaxes(0, axis).T
fpp_reorient(flux, axis) == T(swapaxes(flux, 0, axis))

\* fpp_s_square with np.sum in place of np.nansum.
fpp_s_square_plain_sum(flux_t, n_points) ==
    BinOp("div",
          Reduce("sum", UnOp("pow2", BinOp("sub", DropFirst(flux_t), DropLast(flux_t))),
                 Len(flux_t.shape) - 1),
          BinOp("sub", T(n_points), Scalar(Num(1))))

\* s_square = np.nansum((flux[..., 1:] - flux[..., :-1]) ** 2, axis=-1)
\*            / (n_points.T - 1),  flux being the reoriented array
fpp_s_square(flux_t, n_points) ==
    BinOp("div",
          nansum(UnOp("pow2", BinOp("sub", DropFirst(flux_t), DropLast(flux_t))),
                 Len(flux_t.shape) - 1),
          BinOp("sub", T(n_points), Scalar(Num(1))))

\* sig_square = np.nansum(flux_err**2, axis=axis) / n_points
fpp_sig_square(flux_err, n_points, axis) ==
    BinOp("div", nansum(UnOp("pow2", flux_err), axis), n_points)

\* fpp = np.sqrt(np.abs(s_square.T - sig_square)) / flux_mean
fpp(s_square, sig_square, flux_mean) ==
    BinOp("div", UnOp("sqrt", UnOp("abs", BinOp("sub", T(s_square), sig_square))),
          flux_mean)

\* sigxserr_a = np.sqrt(2 / n_points) * sig_square / flux_mean**2
fpp_sigxserr_a(sig_square, n_points, flux_mean) ==
    BinOp("div",
          BinOp("mul", UnOp("sqrt", BinOp("div", Scalar(Num(2)), n_points)), sig_square),
          UnOp("pow2", flux_mean))

\* sigxserr_b = np.sqrt(sig_square / n_points) * (2 * fpp / flux_mean)
fpp_sigxserr_b(fp, sig_square, n_points, flux_mean) ==
    BinOp("mul",
          UnOp("sqrt", BinOp("div", sig_square, n_points)),
          BinOp("div", BinOp("mul", Scalar(Num(2)), fp), flux_mean))

\* sigxserr = np.sqrt(sigxserr_a**2 + sigxserr_b**2)
\* fpp_err = sigxserr / (2 * fpp)
fpp_err(fp, sigxserr_a, sigxserr_b) ==
    BinOp("div",
          UnOp("sqrt", BinOp("add", UnOp("pow2", sigxserr_a), UnOp("pow2", sigxserr_b))),
          BinOp("mul", Scalar(Num(2)), fp))

compute_fpp(flux0, flux_err0, axis0) ==
    LET flux_mean == fpp_flux_mean(flux0, axis0)
        n_points == fpp_n_points(flux0, axis0)
        flux_t == fpp_reorient(flux0, axis0)
        s_square == fpp_s_square(flux_t, n_points)
        sig_square == fpp_sig_square(flux_err0, n_points, axis0)
        fp == fpp(s_square, sig_square, flux_mean)
        sigxserr_a == fpp_sigxserr_a(sig_square, n_points, flux_mean)
        sigxserr_b == fpp_sigxserr_b(fp, sig_square, n_points, flux_mean)
        fp_err == fpp_err(fp, sigxserr_a, sigxserr_b)
    IN  [raised |-> ~fp_err.ok, val |-> fp, err |-> fp_err,
         flux_mean |-> flux_mean, n_points |-> n_points,
         s_square |-> s_square, sig_square |-> sig_square]

\* ------------------------------------------------------ compute_chisq

RECURSIVE SumAll(_)
SumAll(A) == IF Len(A.shape) = 0 THEN A.data[<<>>] ELSE SumAll(Reduce("sum", A, 0))

RECURSIVE Size(_)
Size(shape) ==
    IF Len(shape) = 0 THEN 1 ELSE shape[Len(shape)] * Size(SubSeq(shape, 1, Len(shape) - 1))

\* np.mean(a): the plain mean over all elements, NaN if any element is NaN
\* or the array is empty.
np_mean(A) == Scalar(Div(SumAll(A), Num(Size(A.shape))))

\* A p-value strictly between 0 and 1, whose digits the model does not compute.
P01 == [k |-> "p01", n |-> 0, d |-> 1, r |-> 1]

\* scipy's chi2.sf(x, df): the upper tail of the chi-square distribution.
chi2_sf(x, df) ==
    CASE IsNaN(x) \/ ~(IsFin(df) /\ df.n > 0) -> NaN
      [] IsInf(x) -> IF x.n > 0 THEN Num(0) ELSE Num(1)
      [] x.n <= 0 -> Num(1)
      [] OTHER -> P01

\* scipy.stats.chisquare(f_obs, f_exp) along axis 0 with ddof 0: the statistic
\* sum((f_obs - f_exp)**2 / f_exp) and its p-value at num_obs - 1 degrees of
\* freedom.
chisquare_stat(f_obs, f_exp) ==
    Reduce("sum", BinOp("div", UnOp("pow2", BinOp("sub", f_obs, f_exp)), f_exp), 0)

chisquare_pval(f_obs, stat) ==
    LET num_obs == Reduce("len", f_obs, 0)
    IN  IF ~stat.ok THEN Raised
        ELSE Arr(stat.shape,
                 [idx \in Indices(stat.shape) |->
                    chi2_sf(stat.data[idx], Sub(num_obs.data[idx], Num(1)))])

\* chisq_yexp with np.sum in place of np.mean.
chisq_yexp_sum(flux) == Scalar(SumAll(flux))

\* yexp = np.mean(flux)
chisq_yexp(flux) == np_mean(flux)

\* yobs = flux.data; chi2, pval = stats.chisquare(yobs, yexp)
compute_chisq(flux0) ==
    LET yexp == chisq_yexp(flux0)
        chi2 == chisquare_stat(flux0, yexp)
        pval == chisquare_pval(flux0, chi2)
    IN  [raised |-> ~pval.ok, chi2 |-> chi2, pval |-> pval, yexp |-> yexp]

\* ------------------------------------------------------ state machine

\* The longest 1-D series drawn.
MaxLen == 3

\* The flux and flux_err values drawn for a 1-D series.
FluxVals == {NaN, Num(-1), Num(1), Num(3)}

ErrVals == {NaN, Num(0), Num(2)}

\* The shapes, flux values and flux-to-error maps drawn for 2-D and 3-D input.
ShapesND ==
    {<<1, 2>>, <<2, 1>>, <<2, 2>>, <<2, 3>>, <<3, 2>>,
     <<1, 2, 2>>, <<2, 1, 2>>, <<2, 2, 1>>, <<2, 3, 1>>, <<2, 2, 2>>}

FluxValsND == {Num(1), Num(3)}

ErrValsND == {Num(0), Num(2)}

VARIABLES
    flux,       \* the flux argument of the call
    flux_err,   \* the flux_err argument of the call
    axis,       \* the axis argument of the call
    pc,         \* "start" before the call, then the function that returned
    ret         \* what the call returned, with its locals

vars == <<flux, flux_err, axis, pc, ret>>

NoRet == [raised |-> FALSE]

\* A 1-D flux series with its errors, reduced along its only axis.
Init ==
    /\ \E len \in 0..MaxLen :
        \E f \in [1..len -> FluxVals], e \in [1..len -> ErrVals] :
            /\ flux = Arr1(f)
            /\ flux_err = Arr1(e)
    /\ axis = 0
    /\ pc = "start"
    /\ ret = NoRet

\* A 2-D or 3-D flux array, errors that depend on the flux level, any axis.
InitND ==
    /\ \E sh \in ShapesND :
        \E f \in [Indices(sh) -> FluxValsND], e \in [FluxValsND -> ErrValsND] :
            /\ flux = Arr(sh, f)
            /\ flux_err = Arr(sh, [idx \in Indices(sh) |-> e[f[idx]]])
            /\ axis \in 0..(Len(sh) - 1)
    /\ pc = "start"
    /\ ret = NoRet

CallFvar ==
    /\ pc = "start"
    /\ ret' = compute_fvar(flux, flux_err, axis)
    /\ pc' = "fvar"
    /\ UNCHANGED <<flux, flux_err, axis>>

CallFpp ==
    /\ pc = "start"
    /\ ret' = compute_fpp(flux, flux_err, axis)
    /\ pc' = "fpp"
    /\ UNCHANGED <<flux, flux_err, axis>>

CallChisq ==
    /\ pc = "start"
    /\ ret' = compute_chisq(flux)
    /\ pc' = "chisq"
    /\ UNCHANGED <<flux, flux_err, axis>>

Next == CallFvar \/ CallFpp \/ CallChisq

Spec == Init /\ [][Next]_vars

NextND == CallFvar \/ CallFpp

SpecND == InitND /\ [][NextND]_vars

\* ------------------------------------------------------------- claims

\* The value of a 0-d array (what a reduction of a 1-D series returns).
Val0(A) == A.data[<<>>]

\* The 1-D series in flux and in flux_err.
FluxSeries == Along(flux, 0, <<>>)

ErrSeries == Along(flux_err, 0, <<>>)

Is1D == Len(flux.shape) = 1

HasNaN(s) == \E i \in 1..Len(s) : IsNaN(s[i])

\* x < y for non-NaN rationals and infinities.
Less(x, y) ==
    CASE IsInf(x) /\ IsInf(y) -> x.n < y.n
      [] IsInf(x) -> x.n < 0
      [] IsInf(y) -> y.n > 0
      [] OTHER -> x.n * y.d < y.n * x.d

\* A 1-D NaN-free series of n >= 2 equal non-zero values.
ConstantSeries ==
    /\ Is1D
    /\ Len(FluxSeries) >= 2
    /\ \A i \in 1..Len(FluxSeries) :
        IsFin(FluxSeries[i]) /\ ~IsZero(FluxSeries[i]) /\ FluxSeries[i] = FluxSeries[1]

\* C6: compute_chisq on a 1-D NaN-free series of n >= 2 equal non-zero values
\* returns chi2 = 0 and pval = 1 (and does not raise).
C6_ConstantSeries ==
    (pc = "chisq" /\ ConstantSeries) =>
        /\ ~ret.raised
        /\ ret.yexp = Scalar(FluxSeries[1])
        /\ ret.chi2 = Scalar(Num(0))
        /\ ret.pval = Scalar(Num(1))

C6_Witness ==
    /\ pc = "chisq"
    /\ ConstantSeries
    /\ Len(FluxSeries) = 3
    /\ Val0(ret.pval) = Num(1)

\* The series with its NaN entries replaced by 0.
ZeroedErr == Arr1(NanToZero(ErrSeries))

\* The sum of x**2 over the non-NaN entries x of s.
RECURSIVE SumSqValid(_)
SumSqValid(s) ==
    IF Len(s) = 0 THEN Num(0)
    ELSE LET rest == SumSqValid(SubSeq(s, 1, Len(s) - 1))
         IN  IF IsNaN(s[Len(s)]) THEN rest ELSE Add(rest, Pow2(s[Len(s)]))

\* C8 as stated: a NaN entry of flux_err makes sigma-bar^2, the statistic and
\* its error NaN, in compute_fvar and in compute_fpp.
C8_Original ==
    (pc \in {"fvar", "fpp"} /\ HasNaN(ErrSeries)) =>
        /\ IsNaN(Val0(ret.sig_square))
        /\ IsNaN(Val0(ret.val))
        /\ IsNaN(Val0(ret.err))

\* C8 amended: in compute_fvar and in compute_fpp sigma-bar^2 is the NaN-aware
\* sum of flux_err^2 (NaN entries of flux_err count as zero) divided by
\* n_points, the count of non-NaN flux entries; so a NaN entry of flux_err
\* does not make sigma-bar^2 NaN when n_points >= 1, and the call returns what
\* it returns with that entry replaced by 0.  NaN entries of flux are left out
\* of the mean and the count.
C8_Amended ==
    pc \in {"fvar", "fpp"} =>
        /\ ~ret.raised
        /\ Val0(ret.n_points) = Num(CountValid(FluxSeries))
        /\ Val0(ret.flux_mean) =
              Div(SumSeq(NanToZero(FluxSeries)), Num(CountValid(FluxSeries)))
        /\ Val0(ret.sig_square) = Div(SumSqValid(ErrSeries), Num(CountValid(FluxSeries)))
        /\ CountValid(FluxSeries) >= 1 => ~IsNaN(Val0(ret.sig_square))
        /\ pc = "fvar" => ret = compute_fvar(flux, ZeroedErr, axis)
        /\ pc = "fpp" => ret = compute_fpp(flux, ZeroedErr, axis)

C8_Witness ==
    /\ pc = "fvar"
    /\ HasNaN(ErrSeries)
    /\ ~HasNaN(FluxSeries)
    /\ Len(FluxSeries) = 3
    /\ IsFin(Val0(ret.sig_square)) /\ ~IsZero(Val0(ret.sig_square))
    /\ IsFin(Val0(ret.val))
    /\ IsFin(Val0(ret.err))

\* The sum of the squared differences of the adjacent pairs of s in which
\* both entries are not NaN.
RECURSIVE AdjacentValidSum(_)
AdjacentValidSum(s) ==
    IF Len(s) < 2 THEN Num(0)
    ELSE LET rest == AdjacentValidSum(SubSeq(s, 1, Len(s) - 1))
             a == s[Len(s) - 1]
             b == s[Len(s)]
         IN  IF IsNaN(a) \/ IsNaN(b) THEN rest ELSE Add(rest, Pow2(Sub(b, a)))

\* The sum of (x - m)**2 over the non-NaN entries x of s.
RECURSIVE DeviationSum(_, _)
DeviationSum(s, m) ==
    IF Len(s) = 0 THEN Num(0)
    ELSE LET rest == DeviationSum(SubSeq(s, 1, Len(s) - 1), m)
         IN  IF IsNaN(s[Len(s)]) THEN rest ELSE Add(rest, Pow2(Sub(s[Len(s)], m)))

\* C9 as stated: a NaN entry of flux makes compute_fpp's S^2, fpp and fpp_err
\* NaN.
C9_Original ==
    (pc = "fpp" /\ HasNaN(FluxSeries)) =>
        /\ IsNaN(Val0(ret.s_square))
        /\ IsNaN(Val0(ret.val))
        /\ IsNaN(Val0(ret.err))

\* C9 amended: compute_fpp sums the squared first differences with the
\* NaN-aware sum, as compute_fvar does for its S^2: the differences next to a
\* NaN entry of flux are NaN and count as zero, so compute_fpp's S^2 is the sum
\* of the squared differences of the adjacent non-NaN pairs divided by
\* n_points - 1 and is not NaN when n_points >= 2; compute_fvar's S^2 is the
\* sum of the squared deviations of the non-NaN entries divided by
\* n_points - 1.
C9_Amended ==
    /\ pc = "fpp" =>
        /\ Val0(ret.s_square) =
              Div(AdjacentValidSum(FluxSeries), Num(CountValid(FluxSeries) - 1))
        /\ CountValid(FluxSeries) >= 2 => ~IsNaN(Val0(ret.s_square))
    /\ pc = "fvar" =>
        /\ Val0(ret.s_square) =
              Div(DeviationSum(FluxSeries, Val0(ret.flux_mean)),
                  Num(CountValid(FluxSeries) - 1))
        /\ CountValid(FluxSeries) >= 2 => ~IsNaN(Val0(ret.s_square))

C9_Witness ==
    /\ pc = "fpp"
    /\ HasNaN(FluxSeries)
    /\ CountValid(FluxSeries) = 2
    /\ IsFin(Val0(ret.s_square)) /\ ~IsZero(Val0(ret.s_square))
    /\ IsFin(Val0(ret.val))
    /\ IsFin(Val0(ret.err))

\* The entries of s at the positions where by is not NaN.
RECURSIVE DeleteNaN(_, _)
DeleteNaN(s, by) ==
    IF Len(s) = 0 THEN <<>>
    ELSE LET rest == DeleteNaN(SubSeq(s, 1, Len(s) - 1), SubSeq(by, 1, Len(by) - 1))
         IN  IF IsNaN(by[Len(s)]) THEN rest ELSE Append(rest, s[Len(s)])

\* compute_fvar on the series with the NaN observations deleted from flux and
\* from flux_err.
FvarOfDeleted ==
    compute_fvar(Arr1(DeleteNaN(FluxSeries, FluxSeries)),
                 Arr1(DeleteNaN(ErrSeries, FluxSeries)), 0)

\* C2: for a 1-D flux series with some NaN observations and at least 2 that
\* are not, compute_fvar returns the same (fvar, fvar_err) as on the series
\* with those observations deleted from flux and flux_err, whatever finite
\* flux_err sits at the deleted positions.
C2_Original ==
    (/\ pc = "fvar"
     /\ HasNaN(FluxSeries)
     /\ CountValid(FluxSeries) >= 2
     /\ \A i \in 1..Len(FluxSeries) : IsNaN(FluxSeries[i]) => IsFin(ErrSeries[i]))
    => /\ ret.val = FvarOfDeleted.val
       /\ ret.err = FvarOfDeleted.err

\* What does hold: the deletion changes nothing when the flux_err of every NaN
\* observation is itself NaN or 0, and it never changes the mean, the count
\* or S^2.
C2_MissingErrToo ==
    (/\ pc = "fvar"
     /\ HasNaN(FluxSeries)
     /\ CountValid(FluxSeries) >= 2)
    => /\ ret.flux_mean = FvarOfDeleted.flux_mean
       /\ ret.n_points = FvarOfDeleted.n_points
       /\ ret.s_square = FvarOfDeleted.s_square
       /\ (\A i \in 1..Len(FluxSeries) :
              IsNaN(FluxSeries[i]) => IsNaN(ErrSeries[i]) \/ IsZero(ErrSeries[i]))
          => ret = FvarOfDeleted

\* C3: for a NaN-free 1-D flux series with at least 2 points whose mean-square
\* error exceeds the sample variance, compute_fvar returns a non-negative real
\* number for fvar (not NaN, not raised).
C3_Original ==
    (/\ pc = "fvar"
     /\ ~HasNaN(FluxSeries)
     /\ Len(FluxSeries) >= 2
     /\ Less(Val0(ret.s_square), Val0(ret.sig_square)))
    => /\ ~ret.raised
       /\ IsFin(Val0(ret.val))
       /\ Val0(ret.val).n >= 0

\* What does hold: fvar is never NaN there when the mean is not zero, and it
\* has the sign of flux_mean.
C3_SignOfMean ==
    (/\ pc = "fvar"
     /\ ~HasNaN(FluxSeries)
     /\ Len(FluxSeries) >= 2
     /\ Less(Val0(ret.s_square), Val0(ret.sig_square)))
    => /\ ~ret.raised
       /\ ~IsZero(Val0(ret.flux_mean)) =>
            /\ IsFin(Val0(ret.val))
            /\ Sign(Val0(ret.val)) = Sign(Val0(ret.flux_mean))
       /\ IsZero(Val0(ret.flux_mean)) => IsInf(Val0(ret.val))

\* The orderings of a series of length len.
Orderings(len) == {p \in [1..len -> 1..len] : \A i, j \in 1..len : p[i] = p[j] => i = j}

\* compute_fpp's S^2 of the series s taken in the order p.
FppS2(s, p) ==
    LET a == Arr1([i \in 1..Len(s) |-> s[p[i]]])
    IN  Val0(fpp_s_square(fpp_reorient(a, 0), fpp_n_points(a, 0)))

RECURSIVE SumFppS2(_, _)
SumFppS2(s, ps) ==
    IF ps = {} THEN Num(0)
    ELSE LET p == CHOOSE q \in ps : TRUE
         IN  Add(FppS2(s, p), SumFppS2(s, ps \ {p}))

\* The average of compute_fpp's S^2 over all orderings of s.
MeanFppS2(s) ==
    Div(SumFppS2(s, Orderings(Len(s))), Num(Cardinality(Orderings(Len(s)))))

\* compute_fvar's S^2 of the series s.
FvarS2(s) ==
    Val0(fvar_s_square(Arr1(s), fvar_flux_mean(Arr1(s), 0), fvar_n_points(Arr1(s), 0), 0))

\* C4: for a NaN-free series, the average over all orderings of compute_fpp's
\* S^2 equals compute_fvar's S^2.
C4_Original ==
    (pc = "fpp" /\ ~HasNaN(FluxSeries) /\ Len(FluxSeries) >= 2) =>
        MeanFppS2(FluxSeries) = FvarS2(FluxSeries)

\* What does hold: the average is twice compute_fvar's S^2.
C4_Twice ==
    (pc = "fpp" /\ ~HasNaN(FluxSeries) /\ Len(FluxSeries) >= 2) =>
        MeanFppS2(FluxSeries) = Mul(Num(2), FvarS2(FluxSeries))

\* The number of consecutive pairs of s whose difference is not NaN.
ContributingPairs(s) ==
    Cardinality({i \in 1..(Len(s) - 1) : ~IsNaN(s[i]) /\ ~IsNaN(s[i + 1])})

\* C10: in compute_fpp, for a flux series with at least 2 non-NaN values, the
\* divisor n_points - 1 is positive and equals the number of consecutive-pair
\* differences that contribute to the sum.
C10_Original ==
    (pc = "fpp" /\ CountValid(FluxSeries) >= 2) =>
        /\ Less(Num(0), Sub(Val0(ret.n_points), Num(1)))
        /\ Sub(Val0(ret.n_points), Num(1)) = Num(ContributingPairs(FluxSeries))

\* What does hold: the divisor is positive, and equals the number of
\* contributing differences when the series has no NaN.
C10_NaNFree ==
    (pc = "fpp" /\ CountValid(FluxSeries) >= 2) =>
        /\ Less(Num(0), Sub(Val0(ret.n_points), Num(1)))
        /\ ~HasNaN(FluxSeries) =>
             Sub(Val0(ret.n_points), Num(1)) = Num(ContributingPairs(FluxSeries))

NaNOrInf(x) == IsNaN(x) \/ IsInf(x)

\* The shape of flux with the reduction axis removed.
ReducedShape == RemoveAt(flux.shape, axis + 1)

\* C1: for a 2-D flux with flux_err of the same shape, compute_fvar and
\* compute_fpp along axis 0 return the same (value, error) as on the
\* transposed arrays along axis 1.
C1_Original ==
    (pc \in {"fvar", "fpp"} /\ Len(flux.shape) = 2 /\ axis = 0) =>
        LET r == IF pc = "fvar" THEN compute_fvar(T(flux), T(flux_err), 1)
                 ELSE compute_fpp(T(flux), T(flux_err), 1)
        IN  /\ ~ret.raised
            /\ ~r.raised
            /\ ret.val = r.val
            /\ ret.err = r.err

\* What does hold: the same statement for compute_fpp alone.
C1_FppAlone ==
    (pc = "fpp" /\ Len(flux.shape) = 2 /\ axis = 0) =>
        LET r == compute_fpp(T(flux), T(flux_err), 1)
        IN  /\ ~ret.raised
            /\ ~r.raised
            /\ ret.val = r.val
            /\ ret.err = r.err

\* compute_fpp on the 1-D flux and flux_err series along the axis at idx.
FppOfSeries(idx) ==
    compute_fpp(Arr1(Along(flux, axis, idx)), Arr1(Along(flux_err, axis, idx)), 0)

\* The call returned arrays of the reduced shape whose elements are what
\* compute_fpp returns for the series along the axis.
FppIsPerSeries ==
    /\ ~ret.raised
    /\ ret.val.shape = ReducedShape
    /\ ret.err.shape = ReducedShape
    /\ \A idx \in Indices(ReducedShape) :
        /\ ret.val.data[idx] = Val0(FppOfSeries(idx).val)
        /\ ret.err.data[idx] = Val0(FppOfSeries(idx).err)

\* C7: for every flux array and every axis of it, compute_fpp returns arrays of
\* the reduced shape whose element at each position is what compute_fpp
\* returns for the 1-D series along the axis at that position.
C7_Original == pc = "fpp" => FppIsPerSeries

\* What does hold: the same for every axis but the last of a 3-D array.
C7_NotLastOf3D == (pc = "fpp" /\ ~(Len(flux.shape) = 3 /\ axis = 2)) => FppIsPerSeries

\* compute_fvar along axis 0 is per series, whatever the number of dimensions.
FvarAxis0IsPerSeries ==
    (pc = "fvar" /\ axis = 0) =>
        /\ ~ret.raised
        /\ ret.val.shape = ReducedShape
        /\ \A idx \in Indices(ReducedShape) :
            LET r == compute_fvar(Arr1(Along(flux, 0, idx)), Arr1(Along(flux_err, 0, idx)), 0)
            IN  ret.val.data[idx] = Val0(r.val) /\ ret.err.data[idx] = Val0(r.err)

\* compute_fvar on the 1-D flux and flux_err series along the axis at idx.
FvarOfSeries(idx) ==
    compute_fvar(Arr1(Along(flux, axis, idx)), Arr1(Along(flux_err, axis, idx)), 0)

\* The series along the axis at idx has no or one data point, or mean zero.
NoMeanOrVariance(idx) ==
    LET s == Along(flux, axis, idx)
    IN  \/ CountValid(s) <= 1
        \/ IsZero(Div(SumSeq(NanToZero(s)), Num(CountValid(s))))

\* A degenerate input: a series along the axis has mean zero, no or one data
\* point, or a fractional excess variance of exactly zero.
DegenerateInput ==
    \E idx \in Indices(ReducedShape) :
        NoMeanOrVariance(idx) \/ IsZero(Val0(FvarOfSeries(idx).val))

\* The call completed and the outputs of the degenerate positions are NaN or
\* infinite: fvar where the mean is zero or n_points is 0 or 1, fvar_err
\* where fvar is exactly zero.
DegenerateGivesNaNOrInf ==
    /\ ~ret.raised
    /\ ret.val.shape = ReducedShape
    /\ ret.err.shape = ReducedShape
    /\ \A idx \in Indices(ReducedShape) :
        /\ NoMeanOrVariance(idx) => NaNOrInf(ret.val.data[idx])
        /\ IsZero(ret.val.data[idx]) => NaNOrInf(ret.err.data[idx])

\* C5: compute_fvar never raises on a degenerate input (flux_mean zero,
\* n_points 0 or 1, fvar exactly zero): the call completes and the affected
\* output is NaN or infinite.
C5_Original == (pc = "fvar" /\ DegenerateInput) => DegenerateGivesNaNOrInf

\* What does hold: the same for compute_fvar along axis 0 (every 1-D series).
C5_Axis0 == (pc = "fvar" /\ axis = 0 /\ DegenerateInput) => DegenerateGivesNaNOrInf

====
